---- MODULE Spec2Model ----
(***************************************************************************)
(* Model of walletcontroller.RpcWalletController (walletcontroller/        *)
(* client.go): a controller holding a fixed backend variant and an RPC     *)
(* session to a bitcoin wallet.  Every controller operation is one         *)
(* synchronous handler; the model runs a handler as one action and records *)
(* the RPCs it issued (with the backend's replies) and what it returned.   *)
(***************************************************************************)
EXTENDS Integers, Sequences, FiniteSets, TLC

VARIABLES
    backend,    \* RpcWalletController.backend, set by the constructor
    network,    \* RpcWalletController.network, set by the constructor
    walletPassphrase,   \* RpcWalletController.walletPassphrase, likewise
    wallet,     \* the backend wallet's unspent outputs (outside the controller)
    aborted,    \* TRUE once a handler panicked (the process is gone)
    op,         \* the last operation invoked, with its arguments
    rpcs,       \* the RPCs that operation issued, in order, with their replies
    ret,        \* what that operation returned
    built       \* the inputs of the transaction the caller last got from
                \* CreateTransaction, none since a broadcast was relayed

vars == <<backend, network, walletPassphrase, wallet, aborted, op, rpcs, ret, built>>

-----------------------------------------------------------------------------
(* Bounds of the model *)

MaxUtxos == 2
MaxOutputs == 2

(* Input domains *)

Amounts == {3000, 5000}
OutValues == {4000, 4800}
FeeRates == {10, 3000}
ChangeAddresses == {"p2wpkh", "bad"}
ProofAddresses == {"p2wpkh", "p2pkh", "p2tr", "bad"}
Messages == {1, 2}
Witnesses == {"witA", "witB"}

-----------------------------------------------------------------------------
(* Go values *)

NoErr == "nil"
None == <<>>
Some(x) == <<x>>

BitcoindWalletBackend == "bitcoind"
BtcwalletWalletBackend == "btcwallet"
UnknownWalletBackend == "unknown"
SupportedWalletBackend ==
    {BitcoindWalletBackend, BtcwalletWalletBackend, UnknownWalletBackend}

TxNotFound == 0
TxInMemPool == 1
TxInChain == 2

txNotFoundErrMsgBtcd == "No information available about transaction"
txNotFoundErrMsgBitcoind == "No such mempool or blockchain transaction"

ErrInvalidBackend == "invalid bitcoin backend"
ErrNotAllSigned == "not all transactions inputs could be signed"
ErrRpc == "rpc error"

Range(s) == {s[i] : i \in DOMAIN s}

Perms(S) ==
    {s \in [1..Cardinality(S) -> S] : Range(s) = S}

-----------------------------------------------------------------------------
(* The signing RPCs of the session and their replies *)

RpcSignWithWallet == "signrawtransactionwithwallet"
RpcSignRaw == "signrawtransaction"
RpcSignWithWallet2 == "signrawtransactionwithwallet (with input hints)"
SigningRpcs == {RpcSignWithWallet, RpcSignRaw, RpcSignWithWallet2}

\* What a signing RPC can answer for tx: an error, the transaction with every
\* input signed, or the transaction with an input left unsigned.
SignedTx(tx, wit, all) ==
    [tx EXCEPT !.witness =
        [i \in DOMAIN tx.txin |-> IF i = 1 /\ ~all THEN "empty" ELSE wit]]

\* The ways the backend can answer a signing request, and its reply to tx.
SignOutcomes ==
    {[complete |-> FALSE, wit |-> "empty", err |-> ErrRpc]}
    \cup [complete : BOOLEAN, wit : Witnesses, err : {NoErr}]

SignReply(tx, o) ==
    IF o.err # NoErr THEN [tx |-> None, complete |-> FALSE, err |-> o.err]
    ELSE [tx |-> Some(SignedTx(tx, o.wit, o.complete)),
          complete |-> o.complete, err |-> NoErr]

\* SignRawTransaction with the two arms of the switch exchanged
SignRawTransaction_Swapped(b, tx, reply) ==
    CASE b = BitcoindWalletBackend ->
            [rpcs |-> <<[name |-> RpcSignRaw, tx |-> tx, hints |-> <<>>,
                         reply |-> reply]>>,
             tx |-> reply.tx, signed |-> reply.complete, err |-> reply.err]
      [] b = BtcwalletWalletBackend ->
            [rpcs |-> <<[name |-> RpcSignWithWallet, tx |-> tx, hints |-> <<>>,
                         reply |-> reply]>>,
             tx |-> reply.tx, signed |-> reply.complete, err |-> reply.err]
      [] OTHER ->
            [rpcs |-> <<>>, tx |-> None, signed |-> FALSE,
             err |-> ErrInvalidBackend]

\* SignRawTransaction treating a partial signature as CreateAndSignTx does
SignRawTransaction_Strict(b, tx, reply) ==
    CASE b \in {BitcoindWalletBackend, BtcwalletWalletBackend} ->
            [rpcs |-> <<[name |-> IF b = BitcoindWalletBackend
                                  THEN RpcSignWithWallet ELSE RpcSignRaw,
                         tx |-> tx, hints |-> <<>>, reply |-> reply]>>,
             tx |-> IF reply.complete THEN reply.tx ELSE None,
             signed |-> reply.complete,
             err |-> IF reply.err = NoErr /\ ~reply.complete
                     THEN ErrNotAllSigned ELSE reply.err]
      [] OTHER ->
            [rpcs |-> <<>>, tx |-> None, signed |-> FALSE,
             err |-> ErrInvalidBackend]

\* func (w *RpcWalletController) SignRawTransaction(tx)
SignRawTransaction(b, tx, reply) ==
    CASE b = BitcoindWalletBackend ->
            [rpcs |-> <<[name |-> RpcSignWithWallet, tx |-> tx, hints |-> <<>>,
                         reply |-> reply]>>,
             tx |-> reply.tx, signed |-> reply.complete, err |-> reply.err]
      [] b = BtcwalletWalletBackend ->
            [rpcs |-> <<[name |-> RpcSignRaw, tx |-> tx, hints |-> <<>>,
                         reply |-> reply]>>,
             tx |-> reply.tx, signed |-> reply.complete, err |-> reply.err]
      [] OTHER ->
            [rpcs |-> <<>>, tx |-> None, signed |-> FALSE,
             err |-> ErrInvalidBackend]

-----------------------------------------------------------------------------
(* Unspent outputs, input selection and the transaction builder *)

RpcListUnspent == "listunspent"

ErrNoUsableFunds == "there must be at least 1 usable UTXO to build transaction"
ErrInsufficientFunds == "insufficient funds"
ErrBadAddress == "unsupported address type"

\* An unspent output: outpoint (unique), value > 0, spendability flag.
Utxos ==
    [outpoint : 1..MaxUtxos, amount : Amounts, spendable : BOOLEAN]

Wallets ==
    {w \in SUBSET Utxos : \A a, b \in w : a.outpoint = b.outpoint => a = b}

\* The backend lists the wallet's unspent outputs in an order of its choosing.
ListUnspentReplies(w) ==
    {[results |-> <<>>, err |-> ErrRpc]}
    \cup {[results |-> p, err |-> NoErr] : p \in Perms(w)}

RECURSIVE SumAmounts(_)
SumAmounts(s) == IF s = <<>> THEN 0 ELSE Head(s).amount + SumAmounts(Tail(s))

RECURSIVE SumValues(_)
SumValues(s) == IF s = <<>> THEN 0 ELSE Head(s).value + SumValues(Tail(s))

RECURSIVE KeepSpendable(_)
KeepSpendable(s) ==
    IF s = <<>> THEN <<>>
    ELSE IF Head(s).spendable THEN <<Head(s)>> \o KeepSpendable(Tail(s))
         ELSE KeepSpendable(Tail(s))

\* resultsToUtxos(results, onlySpendable), after section 4.2 of the
\* specification (ListUnspentOutputs): the listing as Utxo values, in the
\* listing's order, without the unspendable entries when onlySpendable.
resultsToUtxos(results, onlySpendable) ==
    [utxos |-> IF onlySpendable THEN KeepSpendable(results) ELSE results,
     err |-> NoErr]

\* byAmount.Less, after section 4.1 of the specification (its source is not
\* part of the repository's files at hand): by value, outputs of equal value
\* by outpoint.
byAmountLess(a, b) ==
    \/ a.amount < b.amount
    \/ a.amount = b.amount /\ a.outpoint < b.outpoint

\* sort.Reverse(x).Less(i, j) is x.Less(j, i)
ReverseLess(a, b) == byAmountLess(b, a)

\* sort.Sort promises a permutation in which no element is Less than one
\* before it, and nothing about the order of elements neither of which is
\* Less than the other.
IsSorted(s) ==
    \A i, j \in DOMAIN s : i < j => ~ReverseLess(s[j], s[i])

\* the utxos left in the listing's order
SortReverseByAmount_NoSort(utxos) == {utxos}

\* sort.Sort(sort.Reverse(byAmount(utxos))): every outcome the sort may give
SortReverseByAmount(utxos) ==
    {s \in [DOMAIN utxos -> Range(utxos)] :
        /\ \A u \in Range(utxos) :
              Cardinality({i \in DOMAIN s : s[i] = u})
                = Cardinality({i \in DOMAIN utxos : utxos[i] = u})
        /\ IsSorted(s)}

\* txscript.PayToAddrScript(address)
PayToAddrScript(addr) ==
    IF addr = "bad" THEN [script |-> "", err |-> ErrBadAddress]
    ELSE [script |-> addr, err |-> NoErr]

\* Size model of the builder, after section 4.1 of the specification, which
\* names no sizes: a fixed overhead, a size per input and a size
\* per output; the fee is the rate per 1000 bytes applied to the size.
TxOverhead == 10
InputSize == 68
OutputSize == 31
DustThreshold == 294

EstimateSize(nIn, nOut) == TxOverhead + nIn * InputSize + nOut * OutputSize

FeeForSize(rate, size) == (rate * size) \div 1000

Min(S) == CHOOSE x \in S : \A y \in S : x <= y

MsgTx(ins, outs) ==
    [txin |-> ins, txout |-> outs, witness |-> [i \in DOMAIN ins |-> "empty"]]

\* buildTxFromOutputs(utxos, outputs, feeRatePerKb, changeScript), after
\* section 4.1 of the specification: takes the
\* utxos in the given order until they cover the outputs plus the fee of a
\* transaction with that many inputs and a change output; the remainder is
\* the change output, left out when it is below the dust threshold.
buildTxFromOutputs(utxos, outputs, feeRatePerKb, changeScript) ==
    IF Len(utxos) = 0 THEN [tx |-> None, err |-> ErrNoUsableFunds]
    ELSE
      LET target == SumValues(outputs)
          fee(k) == FeeForSize(feeRatePerKb, EstimateSize(k, Len(outputs) + 1))
          covers(k) == SumAmounts(SubSeq(utxos, 1, k)) >= target + fee(k)
          ks == {k \in 1..Len(utxos) : covers(k)}
      IN IF ks = {} THEN [tx |-> None, err |-> ErrInsufficientFunds]
         ELSE
           LET k == Min(ks)
               change == SumAmounts(SubSeq(utxos, 1, k)) - target - fee(k)
               ins == [i \in 1..k |-> utxos[i].outpoint]
           IN [tx |-> Some(MsgTx(ins,
                         IF change < DustThreshold THEN outputs
                         ELSE outputs \o <<[script |-> changeScript,
                                            value |-> change]>>)),
               err |-> NoErr]

\* unspendable outputs kept
OnlySpendable_All == FALSE

\* the onlySpendable argument CreateTransaction passes to resultsToUtxos
OnlySpendable == TRUE

\* CreateTransaction leaving aside the outputs an earlier build selected
CreateTransaction_Reserving(reply, outputs, feeRatePerKb, changeAddres) ==
    LET issued == <<[name |-> RpcListUnspent, err |-> reply.err]>>
        fail(e) == [rpcs |-> issued, tx |-> None, err |-> e]
        free == SelectSeq(reply.results,
                          LAMBDA u : built = None \/ u.outpoint \notin Range(built[1]))
        conv == resultsToUtxos(free, OnlySpendable)
        cs == PayToAddrScript(changeAddres)
    IN IF reply.err # NoErr THEN {fail(reply.err)}
       ELSE IF conv.err # NoErr THEN {fail(conv.err)}
       ELSE IF cs.err # NoErr THEN {fail(cs.err)}
       ELSE {[rpcs |-> issued, tx |-> b.tx, err |-> b.err] :
               b \in {buildTxFromOutputs(sorted, outputs, feeRatePerKb, cs.script) :
                        sorted \in SortReverseByAmount(conv.utxos)}}

\* func (w *RpcWalletController) CreateTransaction(outputs, feeRatePerKb,
\* changeAddres): every result the call can give for a ListUnspent reply.
CreateTransaction(reply, outputs, feeRatePerKb, changeAddres) ==
    LET issued == <<[name |-> RpcListUnspent, err |-> reply.err]>>
        fail(e) == [rpcs |-> issued, tx |-> None, err |-> e]
        conv == resultsToUtxos(reply.results, OnlySpendable)
        cs == PayToAddrScript(changeAddres)
    IN IF reply.err # NoErr THEN {fail(reply.err)}
       ELSE IF conv.err # NoErr THEN {fail(conv.err)}
       ELSE IF cs.err # NoErr THEN {fail(cs.err)}
       ELSE {[rpcs |-> issued, tx |-> b.tx, err |-> b.err] :
               b \in {buildTxFromOutputs(sorted, outputs, feeRatePerKb, cs.script) :
                        sorted \in SortReverseByAmount(conv.utxos)}}

\* CreateAndSignTx without the test of signed
CreateAndSignTx_NoSignedCheck(b, reply, outputs, feeRatePerKb, changeAddress, o) ==
    {IF r.err # NoErr THEN [rpcs |-> r.rpcs, tx |-> None, err |-> r.err]
     ELSE LET s == SignRawTransaction(b, r.tx[1], SignReply(r.tx[1], o))
          IN IF s.err # NoErr
             THEN [rpcs |-> r.rpcs \o s.rpcs, tx |-> None, err |-> s.err]
             ELSE [rpcs |-> r.rpcs \o s.rpcs, tx |-> s.tx, err |-> NoErr] :
     r \in CreateTransaction(reply, outputs, feeRatePerKb, changeAddress)}

\* CreateAndSignTx sending the signed transaction as well
CreateAndSignTx_Broadcasts(b, reply, outputs, feeRatePerKb, changeAddress, o) ==
    {IF r.err # NoErr THEN [rpcs |-> r.rpcs, tx |-> None, err |-> r.err]
     ELSE LET s == SignRawTransaction(b, r.tx[1], SignReply(r.tx[1], o))
          IN IF s.err # NoErr
             THEN [rpcs |-> r.rpcs \o s.rpcs, tx |-> None, err |-> s.err]
             ELSE IF ~s.signed
             THEN [rpcs |-> r.rpcs \o s.rpcs, tx |-> None, err |-> ErrNotAllSigned]
             ELSE [rpcs |-> r.rpcs \o s.rpcs
                              \o <<[name |-> "sendrawtransaction", tx |-> s.tx[1],
                                    allowHighFees |-> FALSE, err |-> NoErr]>>,
                   tx |-> s.tx, err |-> NoErr] :
     r \in CreateTransaction(reply, outputs, feeRatePerKb, changeAddress)}

\* func (w *RpcWalletController) CreateAndSignTx(outputs, feeRatePerKb,
\* changeAddress); o is the way the backend answers the signing request.
CreateAndSignTx(b, reply, outputs, feeRatePerKb, changeAddress, o) ==
    {IF r.err # NoErr THEN [rpcs |-> r.rpcs, tx |-> None, err |-> r.err]
     ELSE LET s == SignRawTransaction(b, r.tx[1], SignReply(r.tx[1], o))
          IN IF s.err # NoErr
             THEN [rpcs |-> r.rpcs \o s.rpcs, tx |-> None, err |-> s.err]
             ELSE IF ~s.signed
             THEN [rpcs |-> r.rpcs \o s.rpcs, tx |-> None, err |-> ErrNotAllSigned]
             ELSE [rpcs |-> r.rpcs \o s.rpcs, tx |-> s.tx, err |-> NoErr] :
     r \in CreateTransaction(reply, outputs, feeRatePerKb, changeAddress)}

-----------------------------------------------------------------------------
(* Broadcast and listing *)

RpcSendRawTransaction == "sendrawtransaction"

\* func (w *RpcWalletController) SendRawTransaction(tx, allowHighFees)
SendRawTransaction(tx, allowHighFees, accepted) ==
    [rpcs |-> <<[name |-> RpcSendRawTransaction, tx |-> tx,
                 allowHighFees |-> allowHighFees,
                 err |-> IF accepted THEN NoErr ELSE ErrRpc]>>,
     hash |-> IF accepted THEN Some(tx.txin) ELSE None,
     err |-> IF accepted THEN NoErr ELSE ErrRpc]

\* func (w *RpcWalletController) ListOutputs(onlySpendable)
ListOutputs(onlySpendable, reply) ==
    LET issued == <<[name |-> RpcListUnspent, err |-> reply.err]>>
        conv == resultsToUtxos(reply.results, onlySpendable)
    IN IF reply.err # NoErr
       THEN [rpcs |-> issued, utxos |-> <<>>, err |-> reply.err]
       ELSE IF conv.err # NoErr
       THEN [rpcs |-> issued, utxos |-> <<>>, err |-> conv.err]
       ELSE [rpcs |-> issued, utxos |-> conv.utxos, err |-> NoErr]

-----------------------------------------------------------------------------
(* Confirmation status *)

RpcConfDetails == "getrawtransaction (tx index)"

\* notifier.TxConfStatus; a value outside the five named ones is possible in
\* the type (an integer), UnknownConfStatus stands for any such value.
NotifierStates ==
    {"TxFoundMempool", "TxFoundIndex", "TxNotFoundIndex", "TxFoundManually",
     "TxNotFoundManually"}
UnknownConfStatus == "TxConfStatus(5)"

ErrBadScript == "unsupported script type"

\* notifier.NewConfRequest(txHash, pkScript) fails on a script it cannot parse
NewConfRequest(txHash, pkScript) ==
    IF pkScript = "bad" THEN [req |-> None, err |-> ErrBadScript]
    ELSE [req |-> Some([txid |-> txHash, pkScript |-> pkScript]), err |-> NoErr]

\* What notifier.ConfDetailsFromTxIndex can answer
ConfReplies ==
    {[conf |-> None, state |-> st, err |-> ErrRpc] :
        st \in NotifierStates \cup {UnknownConfStatus}}
    \cup {[conf |-> IF st \in {"TxFoundIndex", "TxFoundManually"}
                    THEN Some("confirmation") ELSE None,
           state |-> st, err |-> NoErr] :
            st \in NotifierStates \cup {UnknownConfStatus}}

Returned(status) == [panic |-> FALSE, status |-> Some(status)]
Panicked == [panic |-> TRUE, status |-> None]

\* the mapper with a default arm that returns TxNotFound
nofitierStateToWalletState_Coerce(state) ==
    CASE state = "TxNotFoundIndex" -> Returned(TxNotFound)
      [] state = "TxFoundMempool" -> Returned(TxInMemPool)
      [] state = "TxFoundIndex" -> Returned(TxInChain)
      [] state = "TxNotFoundManually" -> Returned(TxNotFound)
      [] state = "TxFoundManually" -> Returned(TxInChain)
      [] OTHER -> Returned(TxNotFound)

\* the mapper taking a mempool transaction for a mined one
nofitierStateToWalletState_Mempool(state) ==
    CASE state = "TxNotFoundIndex" -> Returned(TxNotFound)
      [] state = "TxFoundMempool" -> Returned(TxInChain)
      [] state = "TxFoundIndex" -> Returned(TxInChain)
      [] state = "TxNotFoundManually" -> Returned(TxNotFound)
      [] state = "TxFoundManually" -> Returned(TxInChain)
      [] OTHER -> Panicked

\* func nofitierStateToWalletState(state notifier.TxConfStatus) TxStatus
nofitierStateToWalletState(state) ==
    CASE state = "TxNotFoundIndex" -> Returned(TxNotFound)
      [] state = "TxFoundMempool" -> Returned(TxInMemPool)
      [] state = "TxFoundIndex" -> Returned(TxInChain)
      [] state = "TxNotFoundManually" -> Returned(TxNotFound)
      [] state = "TxFoundManually" -> Returned(TxInChain)
      [] OTHER -> Panicked

\* getTxDetails asking again after a failed query
getTxDetails_Retry(req, msg, reply) ==
    LET issued == <<[name |-> RpcConfDetails, req |-> req, msg |-> msg,
                     reply |-> reply]>>
        mapped == nofitierStateToWalletState(reply.state)
    IN IF reply.err # NoErr
       THEN [rpcs |-> issued \o issued, conf |-> None,
             status |-> Some(TxNotFound), err |-> reply.err, panic |-> FALSE]
       ELSE IF mapped.panic
       THEN [rpcs |-> issued, conf |-> None, status |-> None,
             err |-> NoErr, panic |-> TRUE]
       ELSE [rpcs |-> issued, conf |-> reply.conf, status |-> mapped.status,
             err |-> NoErr, panic |-> FALSE]

\* getTxDetails mapping the status before it looks at the error
getTxDetails_MapFirst(req, msg, reply) ==
    LET issued == <<[name |-> RpcConfDetails, req |-> req, msg |-> msg,
                     reply |-> reply]>>
        mapped == nofitierStateToWalletState(reply.state)
    IN IF mapped.panic
       THEN [rpcs |-> issued, conf |-> None, status |-> None,
             err |-> NoErr, panic |-> TRUE]
       ELSE IF reply.err # NoErr
       THEN [rpcs |-> issued, conf |-> None, status |-> mapped.status,
             err |-> reply.err, panic |-> FALSE]
       ELSE [rpcs |-> issued, conf |-> reply.conf, status |-> mapped.status,
             err |-> NoErr, panic |-> FALSE]

\* func (w *RpcWalletController) getTxDetails(req, msg)
getTxDetails(req, msg, reply) ==
    LET issued == <<[name |-> RpcConfDetails, req |-> req, msg |-> msg,
                     reply |-> reply]>>
        mapped == nofitierStateToWalletState(reply.state)
    IN IF reply.err # NoErr
       THEN [rpcs |-> issued, conf |-> None, status |-> Some(TxNotFound),
             err |-> reply.err, panic |-> FALSE]
       ELSE IF mapped.panic
       THEN [rpcs |-> issued, conf |-> None, status |-> None,
             err |-> NoErr, panic |-> TRUE]
       ELSE [rpcs |-> issued, conf |-> reply.conf, status |-> mapped.status,
             err |-> NoErr, panic |-> FALSE]

\* func (w *RpcWalletController) TxDetails(txHash, pkScript)
TxDetails(b, txHash, pkScript, reply) ==
    LET r == NewConfRequest(txHash, pkScript)
        fail(e) == [rpcs |-> <<>>, conf |-> None, status |-> Some(TxNotFound),
                    err |-> e, panic |-> FALSE]
    IN IF r.err # NoErr THEN fail(r.err)
       ELSE CASE b = BitcoindWalletBackend ->
                    getTxDetails(r.req[1], txNotFoundErrMsgBitcoind, reply)
              [] b = BtcwalletWalletBackend ->
                    getTxDetails(r.req[1], txNotFoundErrMsgBtcd, reply)
              [] OTHER -> fail(ErrInvalidBackend)

-----------------------------------------------------------------------------
(* BIP322 ownership proof *)

ErrToSpend == "failed to bip322 to spend tx"
ErrNotSegwit == "Bip322NativeSegwit support only native segwit addresses"
ErrBip322Sign == "failed to sign raw transaction while creating bip322 signature"
ErrNotUnderControl == "failed to create bip322 signature, address is not under wallet control"

\* bip322.GetToSpendTx(msg, address): one output, of value 0, paying to the
\* address's script; the transaction's id binds message and address.
GetToSpendTx(msg, address) ==
    IF address = "bad" THEN [tx |-> None, err |-> ErrBadAddress]
    ELSE [tx |-> Some([hash |-> [msg |-> msg, address |-> address],
                       txout |-> <<[script |-> address, value |-> 0]>>]),
          err |-> NoErr]

\* bip322.GetToSignTx(toSpend): one input, spending output 0 of toSpend
GetToSignTx(toSpend) ==
    MsgTx(<<toSpend.hash>>, <<[script |-> "OP_RETURN", value |-> 0]>>)

\* txscript.IsPayToWitnessPubKeyHash(script)
IsPayToWitnessPubKeyHash(script) == script = "p2wpkh"

\* the signing half of SignBip322NativeSegwit, with or without the test of all
Bip322Sign(msg, toSpend, o, checkAll) ==
    LET toSign == GetToSignTx(toSpend)
        reply == SignReply(toSign, o)
        issued == <<[name |-> RpcSignWithWallet2, tx |-> toSign,
                     hints |-> <<[txid |-> toSpend.hash, vout |-> 0,
                                  scriptPubKey |-> toSpend.txout[1].script,
                                  amount |-> 0]>>,
                     reply |-> reply]>>
    IN IF reply.err # NoErr
       THEN [rpcs |-> issued, witness |-> None, err |-> ErrBip322Sign]
       ELSE IF checkAll /\ ~reply.complete
       THEN [rpcs |-> issued, witness |-> None, err |-> ErrNotUnderControl]
       ELSE [rpcs |-> issued, witness |-> Some(reply.tx[1].witness[1]),
             err |-> NoErr]

\* SignBip322NativeSegwit without the script test
SignBip322NativeSegwit_NoScriptCheck(msg, address, o) ==
    LET sp == GetToSpendTx(msg, address)
    IN IF sp.err # NoErr
       THEN [rpcs |-> <<>>, witness |-> None, err |-> ErrToSpend]
       ELSE Bip322Sign(msg, sp.tx[1], o, TRUE)

\* SignBip322NativeSegwit without the test of all
SignBip322NativeSegwit_IgnoreAll(msg, address, o) ==
    LET sp == GetToSpendTx(msg, address)
    IN IF sp.err # NoErr
       THEN [rpcs |-> <<>>, witness |-> None, err |-> ErrToSpend]
       ELSE IF ~IsPayToWitnessPubKeyHash(sp.tx[1].txout[1].script)
       THEN [rpcs |-> <<>>, witness |-> None, err |-> ErrNotSegwit]
       ELSE Bip322Sign(msg, sp.tx[1], o, FALSE)

\* func (w *RpcWalletController) SignBip322NativeSegwit(msg, address)
SignBip322NativeSegwit(msg, address, o) ==
    LET sp == GetToSpendTx(msg, address)
        fail(issued, e) == [rpcs |-> issued, witness |-> None, err |-> e]
    IN IF sp.err # NoErr THEN fail(<<>>, ErrToSpend)
       ELSE IF ~IsPayToWitnessPubKeyHash(sp.tx[1].txout[1].script)
       THEN fail(<<>>, ErrNotSegwit)
       ELSE
         LET toSpend == sp.tx[1]
             toSign == GetToSignTx(toSpend)
             reply == SignReply(toSign, o)
             issued == <<[name |-> RpcSignWithWallet2, tx |-> toSign,
                          hints |-> <<[txid |-> toSpend.hash, vout |-> 0,
                                       scriptPubKey |-> toSpend.txout[1].script,
                                       amount |-> 0]>>,
                          reply |-> reply]>>
         IN IF reply.err # NoErr THEN fail(issued, ErrBip322Sign)
            ELSE IF ~reply.complete THEN fail(issued, ErrNotUnderControl)
            ELSE [rpcs |-> issued, witness |-> Some(reply.tx[1].witness[1]),
                  err |-> NoErr]

-----------------------------------------------------------------------------
(* Wallet keys and unlocking *)

RpcWalletPassphrase == "walletpassphrase"
RpcGetAddressInfo == "getaddressinfo"
RpcDumpPrivKey == "dumpprivkey"

ErrNoPubKey == "address has no public key"
ErrHex == "encoding/hex: invalid byte"
ErrParsePubKey == "malformed public key"

\* func (w *RpcWalletController) UnlockWallet(timoutSec)
UnlockWallet(passphrase, timoutSec, accepted) ==
    [rpcs |-> <<[name |-> RpcWalletPassphrase, passphrase |-> passphrase,
                 timeout |-> timoutSec,
                 err |-> IF accepted THEN NoErr ELSE ErrRpc]>>,
     err |-> IF accepted THEN NoErr ELSE ErrRpc]

\* What GetAddressInfo can answer: an error, or the address's info with no
\* public key, or with one that is not hex, not a key, or a key.
AddressInfoReplies ==
    {[pubKey |-> None, err |-> ErrRpc]}
    \cup {[pubKey |-> k, err |-> NoErr] :
            k \in {None, Some("not hex"), Some("hex, no key"), Some("key")}}

\* func (w *RpcWalletController) AddressPublicKey(address)
AddressPublicKey(address, reply) ==
    LET issued == <<[name |-> RpcGetAddressInfo, address |-> address,
                     err |-> reply.err]>>
        fail(e) == [rpcs |-> issued, key |-> None, err |-> e]
    IN IF reply.err # NoErr THEN fail(reply.err)
       ELSE IF reply.pubKey = None THEN fail(ErrNoPubKey)
       ELSE IF reply.pubKey[1] = "not hex" THEN fail(ErrHex)
       ELSE IF reply.pubKey[1] # "key" THEN fail(ErrParsePubKey)
       ELSE [rpcs |-> issued, key |-> reply.pubKey, err |-> NoErr]

\* func (w *RpcWalletController) DumpPrivateKey(address)
DumpPrivateKey(address, found) ==
    LET issued == <<[name |-> RpcDumpPrivKey, address |-> address,
                     err |-> IF found THEN NoErr ELSE ErrRpc]>>
    IN IF ~found THEN [rpcs |-> issued, key |-> None, err |-> ErrRpc]
       ELSE [rpcs |-> issued, key |-> Some("private key"), err |-> NoErr]

\* func (w *RpcWalletController) NetworkName()
NetworkName(net) == [rpcs |-> <<>>, name |-> net]

-----------------------------------------------------------------------------
(* The controller's operations as actions *)

RequestedOutputs ==
    UNION {[1..n -> [script : {"dest"}, value : OutValues]] : n \in 1..MaxOutputs}

\* The transactions a caller hands to SignRawTransaction: any transaction,
\* here one spending the first n outpoints.
CallerTxs ==
    {MsgTx([i \in 1..n |-> i], <<[script |-> "dest", value |-> 4000]>>) :
        n \in 1..MaxUtxos}

\* ... and to SendRawTransaction: unsigned, partly signed or signed.
CallerSignedTxs ==
    CallerTxs \cup {SignedTx(tx, "witA", all) : tx \in CallerTxs, all \in BOOLEAN}

Idle == [name |-> "idle"]

\* NewRpcWalletControllerFromArgs: the backend variant is the caller's
\* argument, whatever it is.
Init ==
    /\ backend \in SupportedWalletBackend
    /\ network = "simnet"
    /\ walletPassphrase = "pass"
    /\ wallet \in Wallets
    /\ aborted = FALSE
    /\ op = Idle
    /\ rpcs = <<>>
    /\ ret = [err |-> NoErr]
    /\ built = None

DoCreateTransaction ==
    /\ ~aborted /\ op = Idle
    /\ \E outputs \in RequestedOutputs, rate \in FeeRates,
          addr \in ChangeAddresses, reply \in ListUnspentReplies(wallet) :
         \E r \in CreateTransaction(reply, outputs, rate, addr) :
            /\ op' = [name |-> "CreateTransaction", outputs |-> outputs,
                      feeRatePerKb |-> rate, changeAddress |-> addr]
            /\ rpcs' = r.rpcs
            /\ ret' = [tx |-> r.tx, err |-> r.err]
    /\ UNCHANGED <<backend, network, walletPassphrase, wallet, aborted, built>>

DoCreateAndSignTx ==
    /\ ~aborted /\ op = Idle
    /\ \E outputs \in RequestedOutputs, rate \in FeeRates,
          addr \in ChangeAddresses, reply \in ListUnspentReplies(wallet),
          o \in SignOutcomes :
         \E r \in CreateAndSignTx(backend, reply, outputs, rate, addr, o) :
            /\ op' = [name |-> "CreateAndSignTx", outputs |-> outputs,
                      feeRatePerKb |-> rate, changeAddress |-> addr]
            /\ rpcs' = r.rpcs
            /\ ret' = [tx |-> r.tx, err |-> r.err]
    /\ UNCHANGED <<backend, network, walletPassphrase, wallet, aborted, built>>

DoSignRawTransaction ==
    /\ ~aborted /\ op = Idle
    /\ \E tx \in CallerTxs, o \in SignOutcomes :
         LET r == SignRawTransaction(backend, tx, SignReply(tx, o))
         IN /\ op' = [name |-> "SignRawTransaction", tx |-> tx]
            /\ rpcs' = r.rpcs
            /\ ret' = [tx |-> r.tx, signed |-> r.signed, err |-> r.err]
    /\ UNCHANGED <<backend, network, walletPassphrase, wallet, aborted, built>>

\* The backend relays a transaction only if it is fully signed and spends
\* spendable outputs of the wallet; the outputs it spends are then spent.
Relayable(tx) ==
    /\ \A i \in DOMAIN tx.witness : tx.witness[i] # "empty"
    /\ \A i \in DOMAIN tx.txin :
          \E u \in wallet : u.outpoint = tx.txin[i] /\ u.spendable

DoSendRawTransaction ==
    /\ ~aborted /\ op = Idle
    /\ \E tx \in CallerSignedTxs, allowHighFees \in BOOLEAN, accepted \in BOOLEAN :
         /\ accepted => Relayable(tx)
         /\ LET r == SendRawTransaction(tx, allowHighFees, accepted)
            IN /\ op' = [name |-> "SendRawTransaction", tx |-> tx]
               /\ rpcs' = r.rpcs
               /\ ret' = [hash |-> r.hash, err |-> r.err]
         /\ wallet' = IF accepted
                      THEN {u \in wallet : u.outpoint \notin Range(tx.txin)}
                      ELSE wallet
         /\ built' = IF accepted THEN None ELSE built
    /\ UNCHANGED <<backend, network, walletPassphrase, aborted>>

DoListOutputs ==
    /\ ~aborted /\ op = Idle
    /\ \E onlySpendable \in BOOLEAN, reply \in ListUnspentReplies(wallet) :
         LET r == ListOutputs(onlySpendable, reply)
         IN /\ op' = [name |-> "ListOutputs", onlySpendable |-> onlySpendable]
            /\ rpcs' = r.rpcs
            /\ ret' = [utxos |-> r.utxos, err |-> r.err]
    /\ UNCHANGED <<backend, network, walletPassphrase, wallet, aborted, built>>

DoTxDetails ==
    /\ ~aborted /\ op = Idle
    /\ \E txHash \in {1}, pkScript \in {"p2wpkh", "bad"}, reply \in ConfReplies :
         LET r == TxDetails(backend, txHash, pkScript, reply)
         IN /\ op' = [name |-> "TxDetails", txHash |-> txHash,
                      pkScript |-> pkScript]
            /\ rpcs' = r.rpcs
            /\ ret' = [conf |-> r.conf, status |-> r.status, err |-> r.err]
            /\ aborted' = r.panic
    /\ UNCHANGED <<backend, network, walletPassphrase, wallet, built>>

DoSignBip322NativeSegwit ==
    /\ ~aborted /\ op = Idle
    /\ \E msg \in Messages, address \in ProofAddresses, o \in SignOutcomes :
         LET r == SignBip322NativeSegwit(msg, address, o)
         IN /\ op' = [name |-> "SignBip322NativeSegwit", msg |-> msg,
                      address |-> address]
            /\ rpcs' = r.rpcs
            /\ ret' = [witness |-> r.witness, err |-> r.err]
    /\ UNCHANGED <<backend, network, walletPassphrase, wallet, aborted, built>>

DoUnlockWallet ==
    /\ ~aborted /\ op = Idle
    /\ \E timoutSec \in {60}, accepted \in BOOLEAN :
         LET r == UnlockWallet(walletPassphrase, timoutSec, accepted)
         IN /\ op' = [name |-> "UnlockWallet", timoutSec |-> timoutSec]
            /\ rpcs' = r.rpcs
            /\ ret' = [err |-> r.err]
    /\ UNCHANGED <<backend, network, walletPassphrase, wallet, aborted, built>>

DoAddressPublicKey ==
    /\ ~aborted /\ op = Idle
    /\ \E address \in {"p2wpkh"}, reply \in AddressInfoReplies :
         LET r == AddressPublicKey(address, reply)
         IN /\ op' = [name |-> "AddressPublicKey", address |-> address]
            /\ rpcs' = r.rpcs
            /\ ret' = [key |-> r.key, err |-> r.err]
    /\ UNCHANGED <<backend, network, walletPassphrase, wallet, aborted, built>>

DoDumpPrivateKey ==
    /\ ~aborted /\ op = Idle
    /\ \E address \in {"p2wpkh"}, found \in BOOLEAN :
         LET r == DumpPrivateKey(address, found)
         IN /\ op' = [name |-> "DumpPrivateKey", address |-> address]
            /\ rpcs' = r.rpcs
            /\ ret' = [key |-> r.key, err |-> r.err]
    /\ UNCHANGED <<backend, network, walletPassphrase, wallet, aborted, built>>

DoNetworkName ==
    /\ ~aborted /\ op = Idle
    /\ LET r == NetworkName(network)
       IN /\ op' = [name |-> "NetworkName"]
          /\ rpcs' = r.rpcs
          /\ ret' = [name |-> r.name]
    /\ UNCHANGED <<backend, network, walletPassphrase, wallet, aborted, built>>

\* The operation has returned and the caller has its result: the controller
\* keeps nothing of a call.
Return ==
    /\ ~aborted /\ op # Idle
    /\ op' = Idle
    /\ rpcs' = <<>>
    /\ ret' = [err |-> NoErr]
    /\ built' = IF op.name = "CreateTransaction" /\ ret.err = NoErr
                THEN Some(ret.tx[1].txin) ELSE built
    /\ UNCHANGED <<backend, network, walletPassphrase, wallet, aborted>>

Next ==
    \/ DoCreateTransaction
    \/ DoCreateAndSignTx
    \/ DoSignRawTransaction
    \/ DoSendRawTransaction
    \/ DoListOutputs
    \/ DoTxDetails
    \/ DoSignBip322NativeSegwit
    \/ DoUnlockWallet
    \/ DoAddressPublicKey
    \/ DoDumpPrivateKey
    \/ DoNetworkName
    \/ Return

Spec == Init /\ [][Next]_vars

-----------------------------------------------------------------------------
(* Properties *)

Recognized == {BitcoindWalletBackend, BtcwalletWalletBackend}

SigningIssued == {i \in DOMAIN rpcs : rpcs[i].name \in SigningRpcs}

\* C1: CreateAndSignTx returns a transaction only when the signing step
\* reported all inputs signed: a signing answer "not all inputs signed, no
\* error" gives an error and no transaction; an answer "all inputs signed"
\* gives exactly the signed transaction of that answer and no error.
C1_SignedOrError ==
    op.name = "CreateAndSignTx" =>
        /\ ret.tx # None =>
              /\ Len(rpcs) = 2
              /\ rpcs[2].name \in SigningRpcs
              /\ rpcs[2].reply.complete
        /\ \A i \in SigningIssued :
              /\ (rpcs[i].reply.err = NoErr /\ ~rpcs[i].reply.complete) =>
                    (ret.err # NoErr /\ ret.tx = None)
              /\ rpcs[i].reply.complete =>
                    (ret.err = NoErr /\ ret.tx = rpcs[i].reply.tx)

C1_Witness ==
    /\ op.name = "CreateAndSignTx"
    /\ Len(rpcs) = 2
    /\ rpcs[2].reply.err = NoErr /\ ~rpcs[2].reply.complete
    /\ ret.err = ErrNotAllSigned /\ ret.tx = None

\* C2: on a recognized backend SignRawTransaction returns the signing RPC's
\* answer (tx, allInputsSigned, err) unchanged; partial signing comes back as
\* allInputsSigned = false with no error.
C2_PassThrough ==
    (op.name = "SignRawTransaction" /\ backend \in Recognized) =>
        /\ Len(rpcs) = 1
        /\ rpcs[1].name \in SigningRpcs
        /\ rpcs[1].tx = op.tx
        /\ ret = [tx |-> rpcs[1].reply.tx,
                  signed |-> rpcs[1].reply.complete,
                  err |-> rpcs[1].reply.err]

C2_Witness ==
    /\ op.name = "SignRawTransaction"
    /\ backend \in Recognized
    /\ Len(rpcs) = 1
    /\ ~rpcs[1].reply.complete /\ rpcs[1].reply.err = NoErr
    /\ ret.err = NoErr /\ ~ret.signed /\ ret.tx # None

\* The signing RPC that goes with a backend variant
ShapeOf(b) ==
    CASE b = BitcoindWalletBackend -> {RpcSignWithWallet}
      [] b = BtcwalletWalletBackend -> {RpcSignRaw}
      [] OTHER -> {}

ShapeFollowsVariant ==
    /\ op.name \in {"SignRawTransaction", "CreateAndSignTx"} =>
          {rpcs[i].name : i \in SigningIssued} \subseteq ShapeOf(backend)
    /\ op.name = "SignRawTransaction" =>
          {rpcs[i].name : i \in SigningIssued} = ShapeOf(backend)

\* C3: the signing RPC SignRawTransaction issues is decided by the backend
\* variant alone (bitcoind: sign-with-wallet, btcwallet: plain sign), and no
\* operation, failed or not, changes the variant.
C3_ShapeFixedByVariant ==
    [][backend' = backend /\ ShapeFollowsVariant']_vars

C3_Witness ==
    /\ op.name = "SignRawTransaction"
    /\ backend = BtcwalletWalletBackend
    /\ Len(rpcs) = 1 /\ rpcs[1].name = RpcSignRaw
    /\ ret.err # NoErr

\* C4: with a backend variant that is neither recognized one, SignRawTransaction,
\* CreateAndSignTx, TxDetails and SignBip322NativeSegwit all fail and issue
\* no signing RPC and no confirmation query.  (The error is left open here:
\* any error counts as the failure.)
C4_UnsupportedBackendFails ==
    (/\ backend \notin Recognized
     /\ op.name \in {"SignRawTransaction", "CreateAndSignTx", "TxDetails",
                     "SignBip322NativeSegwit"}) =>
        /\ ret.err # NoErr
        /\ \A i \in DOMAIN rpcs :
              rpcs[i].name \notin SigningRpcs \cup {RpcConfDetails}

\* C5: the five backend statuses map exactly: not found (index, manually) to
\* TxNotFound, found in mempool to TxInMemPool, found (index, manually) to
\* TxInChain; TxDetails returns that status whenever the query succeeds.
C5_StatusMapping ==
    (/\ op.name = "TxDetails"
     /\ Len(rpcs) = 1
     /\ rpcs[1].reply.err = NoErr
     /\ rpcs[1].reply.state \in NotifierStates) =>
        /\ ~aborted
        /\ ret.err = NoErr
        /\ ret.conf = rpcs[1].reply.conf
        /\ rpcs[1].reply.state \in {"TxNotFoundIndex", "TxNotFoundManually"}
              => ret.status = Some(TxNotFound)
        /\ rpcs[1].reply.state = "TxFoundMempool" => ret.status = Some(TxInMemPool)
        /\ rpcs[1].reply.state \in {"TxFoundIndex", "TxFoundManually"}
              => ret.status = Some(TxInChain)

C5_Witness ==
    /\ op.name = "TxDetails"
    /\ Len(rpcs) = 1
    /\ rpcs[1].reply.err = NoErr
    /\ rpcs[1].reply.state = "TxFoundMempool"
    /\ ret.status = Some(TxInMemPool)

\* C6: when the confirmation query succeeds with a status outside the five,
\* TxDetails panics and the caller gets no status.
C6_UnknownStatusAborts ==
    (/\ op.name = "TxDetails"
     /\ Len(rpcs) = 1
     /\ rpcs[1].reply.err = NoErr
     /\ rpcs[1].reply.state \notin NotifierStates) =>
        /\ aborted
        /\ ret.status = None

C6_Witness ==
    /\ op.name = "TxDetails"
    /\ Len(rpcs) = 1
    /\ rpcs[1].reply.err = NoErr
    /\ rpcs[1].reply.state = UnknownConfStatus
    /\ aborted

\* C7: for an address whose to-spend script is not witness-pubkey-hash,
\* SignBip322NativeSegwit fails with the native-segwit-only error and has
\* issued no RPC at all when it returns.
C7_NonSegwitRejectedFirst ==
    (/\ op.name = "SignBip322NativeSegwit"
     /\ op.address \notin {"p2wpkh", "bad"}) =>
        /\ ret.err = ErrNotSegwit
        /\ ret.witness = None
        /\ rpcs = <<>>

C7_Witness ==
    /\ op.name = "SignBip322NativeSegwit"
    /\ op.address = "p2tr"
    /\ ret.err = ErrNotSegwit
    /\ rpcs = <<>>

\* C8: for a witness-pubkey-hash address SignBip322NativeSegwit issues one
\* signing RPC, of the input-hint form, with the single hint (id of the
\* to-spend transaction, output 0, its script, amount 0); it returns the
\* witness of input 0 of the signed transaction exactly when the RPC answers
\* "all inputs signed" without error, and the not-under-wallet-control error
\* when the RPC answers "not all inputs signed".
C8_OneHintedSigningCall ==
    (/\ op.name = "SignBip322NativeSegwit"
     /\ op.address = "p2wpkh") =>
        /\ Len(rpcs) = 1
        /\ rpcs[1].name = RpcSignWithWallet2
        /\ rpcs[1].tx.txin = <<[msg |-> op.msg, address |-> op.address]>>
        /\ rpcs[1].hints = <<[txid |-> [msg |-> op.msg, address |-> op.address],
                              vout |-> 0, scriptPubKey |-> "p2wpkh",
                              amount |-> 0]>>
        /\ ret.err = NoErr <=>
              (rpcs[1].reply.err = NoErr /\ rpcs[1].reply.complete)
        /\ ret.err = NoErr =>
              ret.witness = <<rpcs[1].reply.tx[1].witness[1]>>
        /\ ret.err # NoErr => ret.witness = None
        /\ (rpcs[1].reply.err = NoErr /\ ~rpcs[1].reply.complete) =>
              ret.err = ErrNotUnderControl

C8_Witness ==
    /\ op.name = "SignBip322NativeSegwit"
    /\ op.address = "p2wpkh"
    /\ Len(rpcs) = 1
    /\ rpcs[1].reply.complete
    /\ ret.err = NoErr
    /\ ret.witness = <<"witB">>

Spendable(w) == {u \in w : u.spendable}

\* a is taken before b: the larger value first, of equal values the higher
\* outpoint first
TakenBefore(a, b) ==
    \/ a.amount > b.amount
    \/ a.amount = b.amount /\ a.outpoint > b.outpoint

LargestFirst(S) ==
    CHOOSE s \in Perms(S) : \A i, j \in DOMAIN s : i < j => TakenBefore(s[i], s[j])

UtxoAt(outpoint) == CHOOSE u \in wallet : u.outpoint = outpoint

InputValue(tx) == SumAmounts([i \in DOMAIN tx.txin |-> UtxoAt(tx.txin[i])])

\* the build got a listing and a change script
BuildRan ==
    /\ op.name = "CreateTransaction"
    /\ rpcs[1].err = NoErr
    /\ op.changeAddress # "bad"

\* the spendable outputs together cover the request and the fee of the
\* transaction that spends them all
FundsSuffice ==
    SumValues(op.outputs)
      + FeeForSize(op.feeRatePerKb,
                   EstimateSize(Cardinality(Spendable(wallet)), Len(op.outputs) + 1))
        <= SumAmounts(LargestFirst(Spendable(wallet)))

\* some largest-first prefix of the spendable outputs covers the request and
\* the fee of a transaction with that many inputs and a change output
SomePrefixSuffices ==
    \E k \in 1..Cardinality(Spendable(wallet)) :
        SumValues(op.outputs)
          + FeeForSize(op.feeRatePerKb, EstimateSize(k, Len(op.outputs) + 1))
            <= SumAmounts(SubSeq(LargestFirst(Spendable(wallet)), 1, k))

SpendsOnlySpendable(tx) ==
    /\ \A i \in DOMAIN tx.txin :
          \E u \in Spendable(wallet) : u.outpoint = tx.txin[i]
    /\ \A i, j \in DOMAIN tx.txin : tx.txin[i] = tx.txin[j] => i = j

RpcNames == [i \in DOMAIN rpcs |-> rpcs[i].name]

\* the build of the operation's arguments can succeed: it got a listing and a
\* change script, and the spendable outputs cover the request and the fee
BuildSucceeds ==
    /\ rpcs[1].err = NoErr
    /\ op.changeAddress # "bad"
    /\ SomePrefixSuffices

\* C12: CreateTransaction issues the list-unspent query and nothing else;
\* CreateAndSignTx issues a signing RPC only after a successful build, and a
\* failed build is returned with no signing RPC issued; the broadcast RPC is
\* issued by SendRawTransaction alone.
C12_BuildReadsSignAfterBuild ==
    /\ op.name = "CreateTransaction" => RpcNames = <<RpcListUnspent>>
    /\ op.name = "CreateAndSignTx" =>
          /\ Len(rpcs) \in {1, 2}
          /\ rpcs[1].name = RpcListUnspent
          /\ Len(rpcs) = 2 =>
                /\ rpcs[2].name \in SigningRpcs
                /\ BuildSucceeds
                /\ SpendsOnlySpendable(rpcs[2].tx)
          /\ ~BuildSucceeds =>
                /\ Len(rpcs) = 1
                /\ ret.err # NoErr /\ ret.tx = None
    /\ \A i \in DOMAIN rpcs :
          rpcs[i].name = RpcSendRawTransaction => op.name = "SendRawTransaction"

\* a build that failed for lack of funds, returned without a signing RPC
C12_Witness ==
    /\ op.name = "CreateAndSignTx"
    /\ backend \in Recognized
    /\ ret.err = ErrInsufficientFunds
    /\ RpcNames = <<RpcListUnspent>>

\* the error a logged RPC came back with
RpcErr(r) ==
    IF r.name \in SigningRpcs \cup {RpcConfDetails} THEN r.reply.err ELSE r.err

\* C13: no operation retries: within one invocation no RPC is issued twice,
\* and an RPC that came back with an error is the last RPC of the invocation,
\* which returns an error.
C13_NoRetry ==
    /\ \A i, j \in DOMAIN rpcs : rpcs[i].name = rpcs[j].name => i = j
    /\ \A i \in DOMAIN rpcs :
          RpcErr(rpcs[i]) # NoErr =>
             /\ i = Len(rpcs)
             /\ ret.err # NoErr

\* a confirmation query that failed, returned as an error after one RPC
C13_Witness ==
    /\ op.name = "TxDetails"
    /\ Len(rpcs) = 1
    /\ rpcs[1].reply.err # NoErr
    /\ ret.err = rpcs[1].reply.err

\* C14: when TxDetails returns an error it returns no confirmation record
\* and the status TxNotFound, whatever status the failed query carried, and
\* the process goes on; TxInMemPool and TxInChain come with no error only.
C14_ErrorMeansNotFound ==
    op.name = "TxDetails" =>
        /\ ret.err # NoErr =>
              /\ ret.conf = None
              /\ ret.status = Some(TxNotFound)
              /\ ~aborted
        /\ ret.status \in {Some(TxInMemPool), Some(TxInChain)} => ret.err = NoErr
        /\ \A i \in DOMAIN rpcs : rpcs[i].reply.err # NoErr => ~aborted

\* a failed query that carried a status outside the five
C14_Witness ==
    /\ op.name = "TxDetails"
    /\ Len(rpcs) = 1
    /\ rpcs[1].reply.err # NoErr
    /\ rpcs[1].reply.state = UnknownConfStatus
    /\ ret.status = Some(TxNotFound)
    /\ ~aborted

====
